---- MODULE Spec2Model ----
(***************************************************************************)
(* The model-maintenance workflow of src/workflow/model_maintenance.py     *)
(* (an Airflow DAG of nine tasks) together with the model store that the   *)
(* API routes of src/app/main.py keep (current model, archives), and the   *)
(* users API of src/app (router.py, security_center.py, database_tools.py).*)
(*                                                                         *)
(* Airflow supplies the execution semantics the DAG file asks for:         *)
(*   - a task instance runs once its trigger rule (ALL_SUCCESS) is met,    *)
(*     becomes upstream_failed when an upstream task is failed or          *)
(*     upstream_failed, and skipped when an upstream task is skipped;      *)
(*   - a callable that raises is retried `retries` more times, so a task   *)
(*     has at most retries + 1 tries, then it is failed;                   *)
(*   - a BranchPythonOperator that returns a task id skips its other       *)
(*     direct downstream tasks;                                            *)
(*   - a DAG built without max_active_runs takes Airflow's default.        *)
(*                                                                         *)
(* The dependency lines 401-402 name t_1, t_2, t_3; they are read here as  *)
(* the operators t1, t2, t3 defined at lines 277-310.                      *)
(*                                                                         *)
(* The HTTP service is the environment of the workflow: while the network  *)
(* is up each request gets a 200 response or an error response, and once   *)
(* the network is down requests.post raises.  The accuracy the service     *)
(* reports is that of the current model on the current dataset.            *)
(***************************************************************************)
EXTENDS Integers, Sequences, FiniteSets, TLC

(***************************************************************************)
(* Bounds of the model.                                                    *)
(***************************************************************************)
MaxRuns == 2

(***************************************************************************)
(* Program constants.                                                      *)
(***************************************************************************)
Retries == 3
Threshold == 85
MaxActiveRuns == 16

Runs == 1..MaxRuns
AccValues == {Threshold - 1, Threshold, Threshold + 1}

(***************************************************************************)
(* The task graph: t1 .. t7_2 and the dependency lines.                    *)
(***************************************************************************)
Nodes == {"get_jwt_token", "recharge_data", "Check_accuracy", "backup", "nope",
          "retrain", "validate", "email_success", "email_failure"}

\* the dependency lines without the edge from Check_accuracy to nope
EdgesWithoutNope ==
  {<<"get_jwt_token", "recharge_data">>, <<"recharge_data", "Check_accuracy">>,
   <<"Check_accuracy", "backup">>,
   <<"backup", "retrain">>, <<"retrain", "validate">>,
   <<"validate", "email_success">>, <<"validate", "email_failure">>}

Edges == {<<"get_jwt_token", "recharge_data">>, <<"recharge_data", "Check_accuracy">>,
          <<"Check_accuracy", "backup">>, <<"Check_accuracy", "nope">>,
          <<"backup", "retrain">>, <<"retrain", "validate">>,
          <<"validate", "email_success">>, <<"validate", "email_failure">>}

Upstream(n) == {m \in Nodes : <<m, n>> \in Edges}

Downstream(n) == {m \in Nodes : <<n, m>> \in Edges}

BranchNodes == {"Check_accuracy", "validate"}

EmailNodes == {"email_success", "email_failure"}

Leaves == {n \in Nodes : Downstream(n) = {}}

\* the task ids a branch callable returns
BranchLabels(n) ==
  IF n = "Check_accuracy" THEN {"nope", "backup"}
  ELSE IF n = "validate" THEN {"email_success", "email_failure"}
  ELSE {}

\* the tasks reached from the tasks in S by at most k dependency edges
RECURSIVE Reach(_, _)
Reach(S, k) ==
  IF k = 0 THEN S ELSE Reach(S \cup {m \in Nodes : \E n \in S : <<n, m>> \in Edges}, k - 1)

RECURSIVE Ancestors(_)
Ancestors(n) == Upstream(n) \cup UNION {Ancestors(m) : m \in Upstream(n)}

(***************************************************************************)
(* Remote operations the callables request, and the replies they can get.  *)
(***************************************************************************)
Ops == {"token", "raw", "dataset", "accuracy", "backup", "train", "reverse_backup"}

Resp(s, acc) == [kind |-> "Response", status_code |-> s, accuracy |-> acc]

ConnErr == [kind |-> "ConnectionError", status_code |-> 0, accuracy |-> {}]

Replies(op, up, acc) ==
  IF ~up THEN {ConnErr}
  ELSE IF op = "accuracy" THEN {Resp(200, {acc}), Resp(400, {})}
  ELSE {Resp(200, {}), Resp(400, {})}

IsOK(resp) == resp.kind = "Response" /\ resp.status_code = 200

\* how a callable sends the request for op: requests.post, with the admin's
\* username and password as form data for the token and a bearer header otherwise
Sent(op) ==
  [method |-> "POST", credential |-> IF op = "token" THEN "form" ELSE "bearer"]

\* how the API serves the route of op: every route of main.py takes an
\* OAuth2PasswordRequestForm, and /accuracy is a GET route
Served(op) ==
  [method |-> IF op = "accuracy" THEN "GET" ELSE "POST", credential |-> "form"]

(***************************************************************************)
(* Python evaluation rules the callables depend on.                        *)
(***************************************************************************)
\* attributes of the objects the callables dereference
Attrs(kind) ==
  IF kind = "Response" THEN {"status_code", "text", "json", "ok", "headers"}
  ELSE IF kind = "db_tools"
       THEN {"create_user", "get_user", "get_all_users", "update_user", "delete_user"}
  ELSE IF kind = "User"
       THEN {"id", "username", "nickname", "email", "hashed_password", "is_active",
             "role", "timestamp", "password"}
  ELSE {}

\* obj.attr raises AttributeError unless the object has the attribute
AttrRaises(kind, attr) == attr \notin Attrs(kind)

\* float(x) raises TypeError unless x is a number or a string
FloatRaises(kind) == kind \notin {"float", "int", "str"}

\* x >= <float> raises TypeError unless x is a number
CompareRaises(kind) == kind \notin {"float", "int"}

\* len(x) raises TypeError unless x is a sized container
LenRaises(kind) == kind \notin {"list", "tuple", "dict", "str"}

\* f(..., kw=...) raises TypeError unless f has a parameter named kw
KeywordRaises(params, kw) == kw \notin params

\* a pydantic model built from the fields given raises ValidationError unless
\* every required field is among them
ValidationRaises(required, given) == ~(required \subseteq given)

(***************************************************************************)
(* The users API of src/app: the users table, JWT tokens, and the code of  *)
(* the handlers.  router.py and main.py import the functions of            *)
(* database_tools.py under the name db_tools; the annotation               *)
(* models.UserUpdate at router.py line 45 is read as models.userUpdateInDB.*)
(* The table is kept in a database file that outlives the process, so its  *)
(* rows at startup are an input, and so are the tokens and forms callers   *)
(* present.                                                                *)
(***************************************************************************)
Roles == {"admin", "employee", "client"}

ADMIN_USERNAME == "admin"

Row(id, username, email, role) ==
  [id |-> id, username |-> username, email |-> email, role |-> role]

UserPool == {Row(1, ADMIN_USERNAME, "admin@x", "admin"),
             Row(2, "bobby", "bobby@x", "employee"),
             Row(3, "carla", "carla@x", "client")}

NoUser == Row(0, "None", "None", "None")

Usernames == {u.username : u \in UserPool}

\* a bearer token: the subject it carries, and whether jwt.decode accepts it
Tokens == [sub : Usernames \cup {"None"}, state : {"valid", "expired", "forged"}]

NoToken == [sub |-> "None", state |-> "none"]

\* OAuth2PasswordRequestForm
Forms == [username : {ADMIN_USERNAME, "ghost"}, password : {"admin@x", "secret"}]

\* the path parameter {identifier}
Ident(isdigit, int, str) == [isdigit |-> isdigit, int |-> int, str |-> str]

Idents == {Ident(TRUE, i, "None") : i \in {u.id : u \in UserPool}}
            \cup {Ident(FALSE, 0, n) : n \in Usernames}

\* request bodies of POST /users
NewUsers == {[username |-> n, email |-> "new@x", role |-> "employee"] :
               n \in {"bobby", "dave_"}}

\* request bodies of PUT /users/{identifier}: the username to set, if any
UserUpdates == {[username |-> n] : n \in {"None", ADMIN_USERNAME, "bobby"}}

\* Query.first(): the first row, or None
First(rows) ==
  IF rows = {} THEN NoUser ELSE CHOOSE u \in rows : \A v \in rows : u.id <= v.id

\* jwt.decode that checks neither the signature nor the expiry
jwt_decode_unverified(token) == [raised |-> FALSE, sub |-> token.sub]

\* jwt.decode(token, SECRET_KEY, algorithms): raises JWTError unless the token is
\* signed with the key and not expired
jwt_decode(token) ==
  IF token.state = "valid" THEN [raised |-> FALSE, sub |-> token.sub]
  ELSE [raised |-> TRUE, sub |-> "None"]

Answer(status, db) == [status |-> status, db |-> db]

Auth(status, user) == [status |-> status, user |-> user]

get_user_with_token(db, token) ==
  LET payload == jwt_decode(token) IN
  IF payload.raised \/ payload.sub = "None" THEN Auth(401, NoUser)
  ELSE LET user == First({u \in db : u.username = payload.sub}) IN
       IF user = NoUser THEN Auth(401, NoUser) ELSE Auth(200, user)

\* database_tools.get_user: the filtered Query is never None, and len() of it raises
db_tools_get_user(db, username, email) ==
  LET user == {u \in db : u.username = username /\ u.email = email} IN
  IF LenRaises("Query") THEN Answer(500, {})
  ELSE IF Cardinality(user) > 1 THEN Answer(500, {})
  ELSE Answer(200, user)

\* database_tools.create_user: builds models.userCreateInDB without nickname and
\* password, which raises before anything is added to the session
db_tools_create_user(db, user) ==
  IF ValidationRaises({"username", "nickname", "email", "password", "role"},
                      {"username", "email", "hashed_password", "is_active", "role"})
  THEN Answer(500, db)
  ELSE IF \E u \in db : u.email = user.email THEN Answer(400, db)
  ELSE LET id == 1 + Cardinality(UserPool) + Cardinality(db)
       IN Answer(200, db \cup {Row(id, user.username, user.email, user.role)})

\* database_tools.delete_user: the row is deleted and committed, then
\* user.model_dump raises inside the try block and is answered by a 500
db_tools_delete_user(db, identifier) ==
  LET user == IF identifier.isdigit
              THEN First({u \in db : u.id = identifier.int})
              ELSE First({u \in db : u.username = identifier.str}) IN
  IF user = NoUser THEN Answer(404, db)
  ELSE IF AttrRaises("User", "model_dump") THEN Answer(500, db \ {user})
  ELSE Answer(204, db \ {user})

\* router.create_user
create_user(db, user, current_user) ==
  IF current_user.role # "admin" THEN Answer(403, db)
  ELSE IF First({u \in db : u.username = user.username}) # NoUser THEN Answer(400, db)
  ELSE db_tools_create_user(db, user)

\* database_tools.update_user: sets the fields given, commits, and then
\* user.model_dump raises inside the try block and is answered by a 500
db_tools_update_user(db, identifier, user_update) ==
  LET user == IF identifier.isdigit
              THEN First({u \in db : u.id = identifier.int})
              ELSE First({u \in db : u.username = identifier.str})
      updated == IF user_update.username = "None" THEN user
                 ELSE [user EXCEPT !.username = user_update.username] IN
  IF user = NoUser THEN Answer(404, db)
  ELSE IF AttrRaises("User", "model_dump") THEN Answer(500, (db \ {user}) \cup {updated})
  ELSE Answer(200, (db \ {user}) \cup {updated})

\* an update_user that calls db_tools.update_user
update_user_by_name(db, identifier, user_update, current_user) ==
  IF current_user.role # "admin" THEN Answer(403, db)
  ELSE db_tools_update_user(db, identifier, user_update)

\* router.update_user: db_tools has no update_user_by_identifier
update_user(db, identifier, user_update, current_user) ==
  IF current_user.role # "admin" THEN Answer(403, db)
  ELSE IF AttrRaises("db_tools", "update_user_by_identifier") THEN Answer(500, db)
  ELSE db_tools_update_user(db, identifier, user_update)

\* a delete_user that does not look at the caller's role
delete_user_unchecked(db, identifier, current_user) ==
  db_tools_delete_user(db, identifier)

\* router.delete_user
delete_user(db, identifier, current_user) ==
  IF current_user.role # "admin" THEN Answer(403, db)
  ELSE db_tools_delete_user(db, identifier)

\* main.token: get_user raises, so no token is ever issued
token(db, form_data) ==
  LET user == db_tools_get_user(db, form_data.username, form_data.password) IN
  IF user.status # 200 THEN Answer(user.status, db)
  ELSE IF user.db = {} THEN Answer(400, db)
  ELSE Answer(200, db)

\* main.predict
predict(db, form_data, loadable) ==
  LET user == db_tools_get_user(db, form_data.username, form_data.password) IN
  IF user.status # 200 THEN Answer(user.status, db)
  ELSE IF user.db = {} THEN Answer(400, db)
  ELSE IF ~loadable THEN Answer(404, db)
  ELSE Answer(200, db)

\* main.lifespan up to the yield: the table after startup
lifespan(db) ==
  IF KeywordRaises({"db", "username", "email", "raise_exception"}, "password")
  THEN Answer(500, db)
  ELSE LET admin_user == {u \in db : u.username = ADMIN_USERNAME} IN
       IF admin_user = {}
       THEN db_tools_create_user(db, [username |-> ADMIN_USERNAME, email |-> "admin@x",
                                      role |-> "admin"])
       ELSE Answer(200, db)

VARIABLES
  dagruns,      \* the runs the scheduler has created
  ts,           \* ts[r][n]: state of task instance n of run r
  tries,        \* tries[r][n]: tries of task instance n so far
  xcom,         \* xcom[r][key]: values pushed under key, with the pushing task
  reqs,         \* reqs[r][op]: requests run r has sent for operation op
  outcomes,     \* outcomes[r]: kinds of reply the token requests of run r got
  fetched,      \* fetched[r][n]: accuracy values gate n of run r has received
  emails,       \* emails[r][n]: messages email task n of run r has sent
  clean,        \* clean[r]: every reply run r has received was a 200 response
  completed,    \* completed[r]: store operations of run r answered by a 200 response
  currentModel, \* the model file ./src/models/trained_model.joblib
  archives,     \* the archive directories, oldest first
  trained,      \* trainings done so far
  accuracy,     \* score of the current model on the current test set
  network,      \* whether requests reach the API and the mail server
  users,        \* the rows of table users
  lastCall,     \* the last call the API has answered, and its answer
  gone,         \* usernames of the rows deleted so far
  started       \* whether the application has been started

remote == <<currentModel, archives, trained, accuracy>>

vars == <<dagruns, ts, tries, xcom, reqs, outcomes, fetched, emails, clean, completed,
          currentModel, archives, trained, accuracy, network,
          users, lastCall, gone, started>>

api == <<users, lastCall, gone, started>>

workflow == <<dagruns, ts, tries, xcom, reqs, outcomes, fetched, emails, clean,
              completed, currentModel, archives, trained, accuracy, network>>

XcomKeys == {"token", "current_accuracy"}

\* the operations that write the model store, and the task that requests each
StoreOps == {"backup", "train"}

TaskOf(op) == IF op = "train" THEN "retrain" ELSE op

TaskStates == {"none", "up_for_retry", "success", "failed", "skipped", "upstream_failed"}

Finished == {"success", "failed", "skipped", "upstream_failed"}


(***************************************************************************)
(* The task callables.  Each takes the replies to the requests it sends    *)
(* and yields: whether it raised, what it returned, the operations it      *)
(* requested (in order) and the XCom values it pushed before it ended.     *)
(***************************************************************************)
Result(raised, ret, sent, push) ==
  [raised |-> raised, ret |-> ret, sent |-> sent, push |-> push]

Push(key, value) == [key |-> key, value |-> value]

\* the number carried by an accuracy reply
AccuracyOf(resp) == CHOOSE a \in resp.accuracy : TRUE

\* a get_jwt_token that pushes what the reply holds and raises on an error response
get_jwt_token_raising(resp) ==
  IF resp.kind = "ConnectionError"
  THEN Result(TRUE, "None", <<"token">>, <<>>)
  ELSE IF resp.status_code = 200
       THEN Result(FALSE, "jwt", <<"token">>, <<Push("token", "jwt")>>)
       ELSE Result(TRUE, "None", <<"token">>, <<Push("token", "None")>>)

get_jwt_token(resp) ==
  IF resp.kind = "ConnectionError"
  THEN Result(TRUE, "None", <<"token">>, <<>>)
  ELSE IF resp.status_code = 200
       THEN Result(FALSE, "jwt", <<"token">>, <<Push("token", "jwt")>>)
       ELSE Result(FALSE, "None", <<"token">>, <<>>)

recharge_data(resp_raw, resp_dataset) ==
  IF resp_raw.kind = "ConnectionError"
  THEN Result(TRUE, "None", <<"raw">>, <<>>)
  ELSE IF resp_dataset.kind = "ConnectionError"
       THEN Result(TRUE, "None", <<"raw", "dataset">>, <<>>)
       ELSE Result(FALSE, "None", <<"raw", "dataset">>, <<>>)

nope == Result(FALSE, "None", <<>>, <<>>)

Check_accuracy(resp_accuracy) ==
  LET sent == <<"accuracy">> IN
  IF resp_accuracy.kind = "ConnectionError"
  THEN Result(TRUE, "None", sent, <<>>)
  ELSE IF FloatRaises(resp_accuracy.kind)
       THEN Result(TRUE, "None", sent, <<>>)
       ELSE LET push == <<Push("current_accuracy", AccuracyOf(resp_accuracy))>> IN
            IF CompareRaises(resp_accuracy.kind)
            THEN Result(TRUE, "None", sent, push)
            ELSE IF AccuracyOf(resp_accuracy) >= Threshold
                 THEN Result(FALSE, "nope", sent, push)
                 ELSE Result(FALSE, "backup", sent, push)

backup(resp_backup) ==
  IF resp_backup.kind = "ConnectionError"
  THEN Result(TRUE, "None", <<"backup">>, <<>>)
  ELSE Result(FALSE, "None", <<"backup">>, <<>>)

retrain(resp_train, resp_accuracy) ==
  IF resp_train.kind = "ConnectionError"
  THEN Result(TRUE, "None", <<"train">>, <<>>)
  ELSE LET sent == <<"train", "accuracy">> IN
       IF resp_accuracy.kind = "ConnectionError"
       THEN Result(TRUE, "None", sent, <<>>)
       ELSE IF AttrRaises("str", "status_code")
            THEN Result(TRUE, "None", sent, <<>>)
            ELSE IF resp_accuracy.status_code = 200
                 THEN IF FloatRaises(resp_accuracy.kind)
                      THEN Result(TRUE, "None", sent, <<>>)
                      ELSE Result(FALSE, "None", sent,
                                  <<Push("current_accuracy", AccuracyOf(resp_accuracy))>>)
                 ELSE Result(FALSE, "None", sent, <<>>)

validate(resp_accuracy, resp_again) ==
  LET sent == <<"accuracy">> IN
  IF resp_accuracy.kind = "ConnectionError"
  THEN Result(TRUE, "None", sent, <<>>)
  ELSE IF AttrRaises(resp_accuracy.kind, "values")
       THEN Result(TRUE, "None", sent, <<>>)
       ELSE LET push == <<Push("current_accuracy", AccuracyOf(resp_accuracy))>> IN
            IF AccuracyOf(resp_accuracy) >= Threshold
            THEN Result(FALSE, "email_success", sent, push)
            ELSE LET sent2 == <<"accuracy", "accuracy">> IN
                 IF resp_again.kind = "ConnectionError"
                 THEN Result(TRUE, "None", sent2, push)
                 ELSE IF AttrRaises("str", "status_code")
                      THEN Result(TRUE, "None", sent2, push)
                      ELSE Result(FALSE, "email_failure", sent2, push)

\* EmailOperator.execute: sends the message, or raises when the mail server fails
email(smtp_ok) == Result(~smtp_ok, "None", <<>>, <<>>)

(***************************************************************************)
(* The routes of the API that keep the model store.                        *)
(***************************************************************************)
Store(model, arch, n, acc) ==
  [model |-> model, archives |-> arch, trained |-> n, accuracy |-> acc]

\* POST /backup: copies the current model into the archive directory named by
\* the current second; a second request within the same second reuses it
BackupRoute(store, same_second) ==
  IF same_second /\ store.archives # <<>>
  THEN [store EXCEPT !.archives[Len(store.archives)] = store.model]
  ELSE [store EXCEPT !.archives = Append(store.archives, store.model)]

\* POST /train: train_model.train() writes a new current model
TrainRoute(store, new_acc) ==
  [store EXCEPT !.model = store.trained + 1, !.trained = store.trained + 1,
                !.accuracy = new_acc]

\* POST /dataset: make_dataset.main() rebuilds the test set
DatasetRoute(store, new_acc) == [store EXCEPT !.accuracy = new_acc]

\* POST /reverse_backup: Path(...).interdir() raises before anything is copied
ReverseBackupRoute(store) ==
  IF AttrRaises("Path", "interdir")
  THEN store
  ELSE IF store.archives = <<>> THEN store
       ELSE [store EXCEPT !.model = store.archives[1]]

\* env: what the API's clock and the training data make of a request
Env(same_second, new_acc) == [same_second |-> same_second, new_acc |-> new_acc]

Route(op, store, env) ==
  CASE op = "backup" -> BackupRoute(store, env.same_second)
    [] op = "train" -> TrainRoute(store, env.new_acc)
    [] op = "dataset" -> DatasetRoute(store, env.new_acc)
    [] op = "reverse_backup" -> ReverseBackupRoute(store)
    [] OTHER -> store

\* the store after the API has served the requests sent[i..], each with its reply
RECURSIVE Serve(_, _, _, _, _)
Serve(store, sent, replies, env, i) ==
  IF i > Len(sent) THEN store
  ELSE Serve(IF IsOK(replies[i]) THEN Route(sent[i], store, env) ELSE store,
             sent, replies, env, i + 1)


(***************************************************************************)
(* Airflow: dependency evaluation, execution of one try, run state.        *)
(***************************************************************************)
Pending(r, n) == r \in dagruns /\ ts[r][n] \in {"none", "up_for_retry"}

\* a scheduler that never gives up on a task instance
DepStateWaiting(r, n) == "wait"

\* trigger rule ALL_DONE: every upstream task has finished, whatever its state
RunnableAllDone(r, n) ==
  \A m \in Upstream(n) : ts[r][m] \in {"success", "failed", "skipped", "upstream_failed"}

\* trigger rule ALL_SUCCESS (the default, and the one t2 .. t6 name)
Runnable(r, n) == \A m \in Upstream(n) : ts[r][m] = "success"

DepState(r, n) ==
  IF \E m \in Upstream(n) : ts[r][m] \in {"failed", "upstream_failed"}
  THEN "upstream_failed"
  ELSE IF \E m \in Upstream(n) : ts[r][m] = "skipped"
       THEN "skipped"
       ELSE "wait"

\* a try that raised is retried while its try number is within `retries`
AfterTry(r, n, raised) ==
  IF ~raised THEN "success"
  ELSE IF tries[r][n] + 1 <= Retries THEN "up_for_retry" ELSE "failed"

\* BranchPythonOperator: the direct downstream tasks other than the returned one
BranchSkips(n, res) ==
  IF n \in BranchNodes /\ ~res.raised THEN Downstream(n) \ {res.ret} ELSE {}

Count(seq, x) == Cardinality({i \in 1..Len(seq) : seq[i] = x})

ReplyKind(resp) ==
  IF resp.kind = "ConnectionError" THEN "exc"
  ELSE IF resp.status_code = 200 THEN "ok" ELSE "err"

Pushed(n, push, key) ==
  LET mine == SelectSeq(push, LAMBDA p : p.key = key)
  IN [i \in 1..Len(mine) |-> [task |-> n, value |-> mine[i].value]]

\* ti.xcom_pull(task_ids, key): the value pushed, or None
xcom_pull(r, task, key) ==
  LET mine == SelectSeq(xcom[r][key], LAMBDA e : e.task = task)
  IN IF mine = <<>> THEN "None" ELSE mine[Len(mine)].value

\* one try of task n of run r: the callable's result res on the replies given
Execute(r, n, res, replies, env) ==
  LET store == Serve(Store(currentModel, archives, trained, accuracy), res.sent,
                     replies, env, 1)
  IN /\ tries' = [tries EXCEPT ![r][n] = @ + 1]
     /\ ts' = [ts EXCEPT ![r] =
                 [m \in Nodes |-> IF m = n THEN AfterTry(r, n, res.raised)
                                  ELSE IF m \in BranchSkips(n, res) THEN "skipped"
                                  ELSE ts[r][m]]]
     /\ xcom' = [xcom EXCEPT ![r] =
                   [k \in XcomKeys |-> xcom[r][k] \o Pushed(n, res.push, k)]]
     /\ reqs' = [reqs EXCEPT ![r] =
                   [op \in Ops |-> reqs[r][op] + Count(res.sent, op)]]
     /\ fetched' = IF n \in BranchNodes
                   THEN [fetched EXCEPT ![r][n] = @ \cup replies[1].accuracy]
                   ELSE fetched
     /\ outcomes' = IF n = "get_jwt_token"
                    THEN [outcomes EXCEPT ![r] = @ \cup {ReplyKind(replies[1])}]
                    ELSE outcomes
     /\ emails' = IF n \in EmailNodes /\ ~res.raised
                  THEN [emails EXCEPT ![r][n] = @ + 1]
                  ELSE emails
     /\ clean' = [clean EXCEPT ![r] =
                    @ /\ \A i \in 1..Len(res.sent) : IsOK(replies[i])]
     /\ completed' = [completed EXCEPT ![r] =
                        @ \cup {res.sent[i] : i \in {j \in 1..Len(res.sent) :
                                   res.sent[j] \in StoreOps /\ IsOK(replies[j])}}]
     /\ currentModel' = store.model
     /\ archives' = store.archives
     /\ trained' = store.trained
     /\ accuracy' = store.accuracy
     /\ UNCHANGED <<network, api>>

\* the scheduler gives up on a task whose trigger rule cannot be met any more
Mark(r, n) ==
  /\ DepState(r, n) # "wait"
  /\ ts' = [ts EXCEPT ![r][n] = DepState(r, n)]
  /\ UNCHANGED <<tries, xcom, reqs, outcomes, fetched, emails, clean, completed, remote, network, api>>

Active(r) == r \in dagruns /\ \E n \in Nodes : ts[r][n] \notin Finished

\* DagRun.update_state: failed when a leaf task is failed or upstream_failed
DagRunState(r) ==
  IF r \notin dagruns THEN "none"
  ELSE IF Active(r) THEN "running"
  ELSE IF \E n \in Leaves : ts[r][n] \in {"failed", "upstream_failed"} THEN "failed"
  ELSE "success"

(***************************************************************************)
(* The state machine.                                                      *)
(***************************************************************************)
NoXcom == [k \in XcomKeys |-> <<>>]

Call(route, status, tok, user, registered, loadable) ==
  [route |-> route, status |-> status, token |-> tok, user |-> user,
   registered |-> registered, loadable |-> loadable]

NoCall == Call("none", 0, NoToken, NoUser, FALSE, FALSE)

\* no call has been made to the users API
NoApi ==
  /\ users = {}
  /\ lastCall = NoCall
  /\ gone = {}
  /\ started = FALSE

\* no run has been created
NoRuns ==
  /\ dagruns = {}
  /\ ts = [r \in Runs |-> [n \in Nodes |-> "none"]]
  /\ tries = [r \in Runs |-> [n \in Nodes |-> 0]]
  /\ xcom = [r \in Runs |-> NoXcom]
  /\ reqs = [r \in Runs |-> [op \in Ops |-> 0]]
  /\ outcomes = [r \in Runs |-> {}]
  /\ fetched = [r \in Runs |-> [n \in BranchNodes |-> {}]]
  /\ emails = [r \in Runs |-> [n \in EmailNodes |-> 0]]
  /\ clean = [r \in Runs |-> TRUE]
  /\ completed = [r \in Runs |-> {}]
  /\ currentModel = 0
  /\ archives = <<>>
  /\ trained = 0
  /\ network = TRUE

Init ==
  /\ NoRuns
  /\ accuracy \in AccValues
  /\ NoApi

\* the scheduler creates the next run of the DAG (schedule_interval, and the
\* intervals since start_date: 'catchup' sits in default_args, not in DAG(...))
dag ==
  /\ \E r \in Runs \ dagruns :
       /\ r = Cardinality(dagruns) + 1
       /\ Cardinality({q \in dagruns : Active(q)}) < MaxActiveRuns
       /\ dagruns' = dagruns \cup {r}
  /\ UNCHANGED <<ts, tries, xcom, reqs, outcomes, fetched, emails, clean, completed, remote, network, api>>

NoEnv == Env(FALSE, accuracy)

t1(r) ==
  /\ Pending(r, "get_jwt_token")
  /\ \E resp \in Replies("token", network, accuracy) :
       Execute(r, "get_jwt_token", get_jwt_token(resp), <<resp>>, NoEnv)
  /\ UNCHANGED dagruns

t2(r) ==
  /\ Pending(r, "recharge_data")
  /\ IF Runnable(r, "recharge_data")
     THEN \E resp_raw \in Replies("raw", network, accuracy),
             resp_dataset \in Replies("dataset", network, accuracy),
             new_acc \in AccValues :
            Execute(r, "recharge_data", recharge_data(resp_raw, resp_dataset),
                    <<resp_raw, resp_dataset>>, Env(FALSE, new_acc))
     ELSE Mark(r, "recharge_data")
  /\ UNCHANGED dagruns

t3(r) ==
  /\ Pending(r, "Check_accuracy")
  /\ IF Runnable(r, "Check_accuracy")
     THEN \E resp \in Replies("accuracy", network, accuracy) :
            Execute(r, "Check_accuracy", Check_accuracy(resp), <<resp>>, NoEnv)
     ELSE Mark(r, "Check_accuracy")
  /\ UNCHANGED dagruns

t4_1(r) ==
  /\ Pending(r, "backup")
  /\ IF Runnable(r, "backup")
     THEN \E resp \in Replies("backup", network, accuracy), same_second \in BOOLEAN :
            Execute(r, "backup", backup(resp), <<resp>>, Env(same_second, accuracy))
     ELSE Mark(r, "backup")
  /\ UNCHANGED dagruns

t4_2(r) ==
  /\ Pending(r, "nope")
  /\ IF Runnable(r, "nope")
     THEN Execute(r, "nope", nope, <<>>, NoEnv)
     ELSE Mark(r, "nope")
  /\ UNCHANGED dagruns

t5(r) ==
  /\ Pending(r, "retrain")
  /\ IF Runnable(r, "retrain")
     THEN \E resp_train \in Replies("train", network, accuracy), new_acc \in AccValues :
            \E resp_accuracy \in Replies("accuracy", network,
                                         IF IsOK(resp_train) THEN new_acc ELSE accuracy) :
              Execute(r, "retrain", retrain(resp_train, resp_accuracy),
                      <<resp_train, resp_accuracy>>, Env(FALSE, new_acc))
     ELSE Mark(r, "retrain")
  /\ UNCHANGED dagruns

t6(r) ==
  /\ Pending(r, "validate")
  /\ IF Runnable(r, "validate")
     THEN \E resp \in Replies("accuracy", network, accuracy),
             resp_again \in Replies("accuracy", network, accuracy) :
            Execute(r, "validate", validate(resp, resp_again),
                    <<resp, resp_again>>, NoEnv)
     ELSE Mark(r, "validate")
  /\ UNCHANGED dagruns

t7_1(r) ==
  /\ Pending(r, "email_success")
  /\ IF Runnable(r, "email_success")
     THEN Execute(r, "email_success", email(network), <<>>, NoEnv)
     ELSE Mark(r, "email_success")
  /\ UNCHANGED dagruns

t7_2(r) ==
  /\ Pending(r, "email_failure")
  /\ IF Runnable(r, "email_failure")
     THEN Execute(r, "email_failure", email(network), <<>>, NoEnv)
     ELSE Mark(r, "email_failure")
  /\ UNCHANGED dagruns

\* the environment: the network goes down
outage ==
  /\ network
  /\ network' = FALSE
  /\ UNCHANGED <<dagruns, ts, tries, xcom, reqs, outcomes, fetched, emails, clean, completed, remote, api>>

Tasks(r) ==
  \/ t1(r)
  \/ t2(r)
  \/ t3(r)
  \/ t4_1(r)
  \/ t4_2(r)
  \/ t5(r)
  \/ t6(r)
  \/ t7_1(r)
  \/ t7_2(r)

Next ==
  \/ dag
  \/ outage
  \/ \E r \in Runs : Tasks(r)

Spec == Init /\ [][Next]_vars

\* the scheduler keeps queuing the task instances of a run that can be tried or
\* marked, and a try ends: requests.post returns or raises
Fairness == \A r \in Runs : WF_vars(Tasks(r))

(***************************************************************************)
(* The tasks of one run, taken from the point where task s has become      *)
(* eligible: the tasks upstream of s have succeeded and the branch tasks   *)
(* among them have selected the path to s.  The model store is one the     *)
(* backup and train routes can have left behind.  When Check_accuracy is   *)
(* upstream of s, it has pushed the reading that selected the path.        *)
(***************************************************************************)
\* the readings with which Check_accuracy selects the path to s
PathReadings(s) ==
  IF "Check_accuracy" \notin Ancestors(s) THEN {}
  ELSE IF "nope" \in Ancestors(s) \cup {s} THEN {a \in AccValues : a >= Threshold}
  ELSE {a \in AccValues : a < Threshold}

OffPath(s) ==
  {m \in Nodes : /\ m \notin Ancestors(s) \cup {s}
                 /\ \E b \in Ancestors(s) \cap BranchNodes : m \in Downstream(b)}

InitResume ==
  \E s \in Nodes, has_token \in BOOLEAN, model \in {0, 1}, arch \in {<<>>, <<0>>} :
    /\ "backup" \in Ancestors(s) => arch # <<>>
    /\ "retrain" \in Ancestors(s) => model = 1
    /\ dagruns = {1}
    /\ ts = [r \in Runs |-> [n \in Nodes |->
               IF r = 1 /\ n \in Ancestors(s) THEN "success"
               ELSE IF r = 1 /\ n \in OffPath(s) THEN "skipped"
               ELSE "none"]]
    /\ tries = [r \in Runs |-> [n \in Nodes |->
                  IF r = 1 /\ n \in Ancestors(s) THEN 1 ELSE 0]]
    /\ \E pre \in SUBSET PathReadings(s) :
         /\ Cardinality(pre) = IF PathReadings(s) = {} THEN 0 ELSE 1
         /\ xcom = [r \in Runs |-> [k \in XcomKeys |->
                      IF r = 1 /\ k = "token" /\ has_token /\ s # "get_jwt_token"
                      THEN <<[task |-> "get_jwt_token", value |-> "jwt"]>>
                      ELSE IF r = 1 /\ k = "current_accuracy"
                           THEN Pushed("Check_accuracy",
                                       [i \in 1..Cardinality(pre) |->
                                          Push(k, CHOOSE a \in pre : TRUE)], k)
                           ELSE <<>>]]
         /\ fetched = [r \in Runs |-> [n \in BranchNodes |->
                         IF r = 1 /\ n = "Check_accuracy" THEN pre ELSE {}]]
    /\ reqs = [r \in Runs |-> [op \in Ops |-> 0]]
    /\ outcomes = [r \in Runs |-> {}]
    /\ emails = [r \in Runs |-> [n \in EmailNodes |-> 0]]
    /\ clean = [r \in Runs |-> TRUE]
    /\ completed = [r \in Runs |-> IF r # 1 THEN {}
                                 ELSE {op \in StoreOps : TaskOf(op) \in Ancestors(s)}]
    /\ currentModel = model
    /\ archives = arch
    /\ trained = model
    /\ accuracy \in AccValues
    /\ network = TRUE
    /\ NoApi

NextResume ==
  \/ outage
  \/ \E r \in Runs : Tasks(r)

SpecResume == InitResume /\ [][NextResume]_vars

\* one run, fresh (s the entry task) or resumed, under a scheduler that goes on
SpecResumeLive == InitResume /\ [][NextResume]_vars /\ Fairness

(***************************************************************************)
(* The users API: each action is one call answered by the application.     *)
(* FastAPI resolves Depends(get_user_with_token) before the handler, and   *)
(* an uncaught exception in a handler is answered by a 500.                *)
(***************************************************************************)
InitApi ==
  /\ NoRuns
  /\ accuracy = Threshold
  /\ users \in SUBSET UserPool
  /\ lastCall = NoCall
  /\ gone = {}
  /\ started = FALSE

Registered(db, form_data) == \E u \in db : u.username = form_data.username

\* the table and the record of the call, after a call has been answered
Answered(route, answer, tok, user, registered, loadable) ==
  /\ users' = answer.db
  /\ gone' = gone \cup {u.username : u \in users \ answer.db}
  /\ lastCall' = Call(route, answer.status, tok, user, registered, loadable)
  /\ UNCHANGED workflow

startup ==
  /\ Answered("lifespan", lifespan(users), NoToken, NoUser, FALSE, FALSE)
  /\ started' = TRUE

post_token ==
  /\ \E form_data \in Forms :
       Answered("token", token(users, form_data), NoToken, NoUser,
                Registered(users, form_data), FALSE)
  /\ UNCHANGED started

post_prediction ==
  /\ \E form_data \in Forms, loadable \in BOOLEAN :
       Answered("predict", predict(users, form_data, loadable), NoToken, NoUser,
                Registered(users, form_data), loadable)
  /\ UNCHANGED started

post_users ==
  /\ \E tok \in Tokens, user \in NewUsers :
       LET auth == get_user_with_token(users, tok) IN
       Answered("create_user",
                IF auth.status # 200 THEN Answer(auth.status, users)
                ELSE create_user(users, user, auth.user),
                tok, auth.user, FALSE, FALSE)
  /\ UNCHANGED started

put_users ==
  /\ \E tok \in Tokens, identifier \in Idents, user_update \in UserUpdates :
       LET auth == get_user_with_token(users, tok) IN
       Answered("update_user",
                IF auth.status # 200 THEN Answer(auth.status, users)
                ELSE update_user(users, identifier, user_update, auth.user),
                tok, auth.user, FALSE, FALSE)
  /\ UNCHANGED started

delete_users ==
  /\ \E tok \in Tokens, identifier \in Idents :
       LET auth == get_user_with_token(users, tok) IN
       Answered("delete_user",
                IF auth.status # 200 THEN Answer(auth.status, users)
                ELSE delete_user(users, identifier, auth.user),
                tok, auth.user, FALSE, FALSE)
  /\ UNCHANGED started

NextApi ==
  \/ startup
  \/ post_token
  \/ post_prediction
  \/ post_users
  \/ put_users
  \/ delete_users

SpecApi == InitApi /\ [][NextApi]_vars


(***************************************************************************)
(* Properties.                                                             *)
(***************************************************************************)
Done(r) == r \in dagruns /\ ~Active(r)

\* the accuracy gate n of run r has fetched, when it has fetched one
Below(r, n) == fetched[r][n] # {} /\ \A a \in fetched[r][n] : a < Threshold

AtLeast(r, n) == fetched[r][n] # {} /\ \A a \in fetched[r][n] : a >= Threshold

Notifications(r) == emails[r]["email_success"] + emails[r]["email_failure"]

\* C1: a finished run whose validate task fetched an accuracy below the threshold
\* has requested reverse_backup exactly once and has sent email_failure exactly once.
C1_RestoreAndFailureOnce ==
  \A r \in Runs :
    (Done(r) /\ Below(r, "validate")) =>
      (reqs[r]["reverse_backup"] = 1 /\ emails[r]["email_failure"] = 1)

\* C2: a finished run has sent exactly one notification.
C2_OneNotification ==
  \A r \in Runs : Done(r) => Notifications(r) = 1

\* C3: a finished run whose token requests were all answered by an error response
\* has get_jwt_token failed, has tried no other task, is failed, and has sent
\* exactly one failure notification.
C3_AuthFailureStopsRun ==
  \A r \in Runs :
    (Done(r) /\ outcomes[r] = {"err"}) =>
      /\ ts[r]["get_jwt_token"] = "failed"
      /\ \A n \in Nodes \ {"get_jwt_token"} : tries[r][n] = 0
      /\ DagRunState(r) = "failed"
      /\ emails[r]["email_failure"] = 1
      /\ emails[r]["email_success"] = 0

\* C4: in a finished run whose token requests never got a 200 response, the token
\* operation was requested exactly `retries` times and get_jwt_token is failed.
C4_RetriesExhausted ==
  \A r \in Runs :
    (Done(r) /\ outcomes[r] # {} /\ "ok" \notin outcomes[r]) =>
      (reqs[r]["token"] = Retries /\ ts[r]["get_jwt_token"] = "failed")

\* C5: a finished run whose Check_accuracy task fetched an accuracy at or above the
\* threshold has selected nope (nope ran, backup was skipped), has skipped retrain,
\* and has requested neither backup nor train.
C5_PassSelectsNope ==
  \A r \in Runs :
    (Done(r) /\ AtLeast(r, "Check_accuracy")) =>
      /\ ts[r]["nope"] = "success"
      /\ ts[r]["backup"] = "skipped"
      /\ ts[r]["retrain"] = "skipped"
      /\ reqs[r]["backup"] = 0
      /\ reqs[r]["train"] = 0

\* C6: a finished run that met no remote failure and whose Check_accuracy task
\* fetched an accuracy below the threshold has selected backup (nope was skipped)
\* and has executed backup, retrain and validate.
C6_FailSelectsBackup ==
  \A r \in Runs :
    (Done(r) /\ clean[r] /\ network /\ Below(r, "Check_accuracy")) =>
      /\ ts[r]["nope"] = "skipped"
      /\ tries[r]["backup"] > 0
      /\ tries[r]["retrain"] > 0
      /\ tries[r]["validate"] > 0

\* C7: a finished run whose validate task fetched an accuracy at or above the
\* threshold has selected email_success (email_failure was skipped) and has never
\* requested reverse_backup.
C7_PassSelectsCommit ==
  \A r \in Runs :
    (Done(r) /\ AtLeast(r, "validate")) =>
      /\ ts[r]["email_failure"] = "skipped"
      /\ ts[r]["email_success"] \in {"success", "failed"}
      /\ reqs[r]["reverse_backup"] = 0

\* C8: after a finished run whose validate task fetched an accuracy below the
\* threshold, the current model is the most recently archived backup.
C8_RollbackRestoresBackup ==
  \A r \in Runs :
    (Done(r) /\ Below(r, "validate") /\ archives # <<>>) =>
      currentModel = archives[Len(archives)]

\* C9: at every moment at most one run is active.
C9_SingleActiveRun ==
  Cardinality({r \in dagruns : Active(r)}) <= 1

\* the tasks that request a non-auth remote operation
RemoteNodes == {"recharge_data", "Check_accuracy", "backup", "retrain"}

\* C11: a task requesting a non-auth remote operation whose first try receives the
\* first reply of the run that is not a 200 response is not a success by that try
\* (it is retried, and failed once its tries are exhausted).
C11_NonSuccessFailsNode ==
  [][\A r \in Runs, n \in RemoteNodes :
       (tries[r][n] = 0 /\ tries'[r][n] = 1 /\ clean[r] /\ ~clean'[r]) =>
         ts'[r][n] # "success"]_vars

\* the tasks that pull the key 'token' from get_jwt_token
TokenReaders == {"recharge_data", "Check_accuracy", "backup", "retrain", "validate"}

\* C13: a task that reads the key 'token' has been tried in a run only if
\* get_jwt_token has pushed a token under that key in the same run.
C13_TokenWrittenBeforeRead ==
  \A r \in Runs, n \in TokenReaders :
    tries[r][n] > 0 => xcom_pull(r, "get_jwt_token", "token") # "None"

C14_ComparesWithBackup ==
  \A r \in Runs :
    (Done(r) /\ network) =>
      \A old \in fetched[r]["Check_accuracy"], new \in fetched[r]["validate"] :
        /\ (new < old) => (reqs[r]["reverse_backup"] > 0 /\ emails[r]["email_failure"] = 1)
        /\ (new >= old) => (reqs[r]["reverse_backup"] = 0 /\ emails[r]["email_failure"] = 0)
        /\ (new > old) <=> (emails[r]["email_success"] = 1)

\* C19: in every run, train has been requested only if a backup request of the run
\* was answered 200 before, validate has been tried only if a train request of the
\* run was answered 200 before, and retrain and validate have been tried only
\* after backup, respectively retrain, succeeded.
C19_BackupTrainValidateOrder ==
  \A r \in Runs :
    /\ reqs[r]["train"] > 0 => ("backup" \in completed[r] /\ ts[r]["backup"] = "success")
    /\ tries[r]["validate"] > 0 => ("train" \in completed[r] /\ ts[r]["retrain"] = "success")

\* C20: a task is tried only in a state where all its upstream tasks are success;
\* in no run have both backup and nope been tried, and in no run have both
\* email_success and email_failure been sent.
C20_RunsOnlyAfterUpstream ==
  /\ [][\A r \in Runs, n \in Nodes :
          tries'[r][n] > tries[r][n] => \A m \in Upstream(n) : ts[r][m] = "success"]_vars
  /\ [](\A r \in Runs :
          /\ ~(tries[r]["backup"] > 0 /\ tries[r]["nope"] > 0)
          /\ ~(emails[r]["email_success"] > 0 /\ emails[r]["email_failure"] > 0))

\* retrain has been tried below the branch task Check_accuracy, on the path of the
\* label backup, while the other label, nope, is skipped
C20_Witness ==
  \E r \in Runs :
    /\ tries[r]["backup"] > 0
    /\ tries[r]["retrain"] > 0
    /\ ts[r]["nope"] = "skipped"
    /\ tries[r]["nope"] = 0

UserRoutes == {"create_user", "update_user", "delete_user"}

\* C15: a create, update or delete call whose token authenticates a user who is
\* not an admin is answered 403 and leaves the users table as it was; a call that
\* changes the table is an admin's.
C15_OnlyAdminChangesUsers ==
  [][/\ (lastCall'.route \in UserRoutes /\ lastCall'.user # NoUser
           /\ lastCall'.user.role # "admin") =>
          (lastCall'.status = 403 /\ users' = users)
     /\ users' # users => lastCall'.user.role = "admin"]_vars

\* a delete call of a user who is not an admin has been answered 403
C15_Witness ==
  /\ lastCall.route = "delete_user"
  /\ lastCall.user \in users
  /\ lastCall.user.role # "admin"
  /\ lastCall.status = 403

\* C16: a call is served as a user only if its token is valid and unexpired and the
\* table holds that user under the token's username when the call is made; a call
\* to a route behind get_user_with_token whose token is not valid, or whose
\* username is in no row (its row deleted, say), is answered 401.
C16_TokenNeedsLiveUser ==
  [][/\ lastCall'.user # NoUser =>
          /\ lastCall'.token.state = "valid"
          /\ lastCall'.user \in users
          /\ lastCall'.user.username = lastCall'.token.sub
     /\ (/\ lastCall'.route \in UserRoutes
         /\ \/ lastCall'.token.state # "valid"
            \/ ~\E u \in users : u.username = lastCall'.token.sub) =>
          (lastCall'.status = 401 /\ lastCall'.user = NoUser /\ users' = users)]_vars

\* a valid token of a user whose row has been deleted has been answered 401
C16_Witness ==
  /\ lastCall.route \in UserRoutes
  /\ lastCall.token.state = "valid"
  /\ lastCall.token.sub \in gone
  /\ lastCall.status = 401

\* C17: a predict call by a caller who is not a registered user, or with a features
\* file that cannot be loaded, is answered 404.
C17_PredictNotFound ==
  (lastCall.route = "predict" /\ (~lastCall.registered \/ ~lastCall.loadable)) =>
    lastCall.status = 404

Admins(db) == {u \in db : u.username = ADMIN_USERNAME /\ u.role = "admin"}

\* C18: a startup leaves exactly one admin user named ADMIN_USERNAME in the users
\* table, and leaves the table as it was when it held one already.
C18_StartupOneAdmin ==
  [][lastCall'.route = "lifespan" =>
       /\ Cardinality(Admins(users')) = 1
       /\ Admins(users) # {} => users' = users]_vars

Acyclic == \A n \in Nodes : n \notin Reach(Downstream(n), Cardinality(Nodes))

EntryNodes == {n \in Nodes : Upstream(n) = {}}

LabelsAreDownstream ==
  \A b \in BranchNodes : BranchLabels(b) # {} /\ BranchLabels(b) \subseteq Downstream(b)

RequestsOf(r) ==
  reqs[r]["token"] + reqs[r]["raw"] + reqs[r]["dataset"] + reqs[r]["accuracy"]
    + reqs[r]["backup"] + reqs[r]["train"] + reqs[r]["reverse_backup"]

\* C22: a try of a task other than the two email tasks sends exactly one request.
C22_OneRequestPerTry ==
  [][\A r \in Runs, n \in Nodes \ EmailNodes :
       tries'[r][n] = tries[r][n] + 1 => RequestsOf(r)' = RequestsOf(r) + 1]_vars

C25_RequestsMatchRoutes ==
  \A r \in Runs, op \in Ops \ {"token"} : reqs[r][op] > 0 => Sent(op) = Served(op)

\* C21: every run that has been created eventually has all its tasks finished
\* (success, failed, skipped, or upstream_failed: Airflow's state of a task that
\* is not invoked because an upstream task failed); the finished run is failed
\* exactly when one of its tasks is failed, which it is after retries + 1 tries.
C21_RunsTerminate ==
  /\ \A r \in Runs : (r \in dagruns) ~> Done(r)
  /\ [](\A r \in Runs : Done(r) =>
          /\ DagRunState(r) = "failed" <=> \E n \in Nodes : ts[r][n] = "failed"
          /\ DagRunState(r) \in {"failed", "success"}
          /\ \A n \in Nodes : ts[r][n] = "failed" => tries[r][n] = Retries + 1)

\* a run has finished with a failed task, and is failed
C21_Witness ==
  \E r \in Runs :
    /\ Done(r)
    /\ ts[r]["Check_accuracy"] = "failed"
    /\ DagRunState(r) = "failed"

====
